---------------------------- MODULE Spec2Model ----------------------------
(***************************************************************************)
(* A model of smartcrop/library.py: the SmartCrop object, its crop() and   *)
(* analyse() operations, the candidate generator crops(), the scorer       *)
(* score(), the importance field and the rule-of-thirds bump thirds().     *)
(*                                                                         *)
(* Numbers.  The program computes in binary floating point.  The model     *)
(* computes the geometry (scale, prescale factor, crop sizes, the scale    *)
(* grid, the rescaling of the result) in exact rational arithmetic: a      *)
(* rational is a pair <<n, d>> with d > 0.  The importance field and the   *)
(* score, which take a square root, are computed in fixed point with       *)
(* Unit steps per 1.0.  A candidate's width and height in analysis space   *)
(* are crop_width * i / 100 for an integer i of the scale grid, and are    *)
(* held as hundredths (width100 = crop_width * i).                         *)
(*                                                                         *)
(* Image content.  Pixels are not modelled.  An image is its size and a    *)
(* content kind, and Feature gives the skin, detail and saturation values  *)
(* that feature extraction and the down-sampling to the score image yield  *)
(* for a kind at one cell of the score image.  The boost channel is        *)
(* computed from the stored boost regions, pixel by pixel.                 *)
(*                                                                         *)
(* State.  boosts is self.boosts; pc, args and result are the call in      *)
(* progress, the objects its caller passed and what it returns or raises;  *)
(* cast is how the build converts a float outside 0 .. 255 to uint8.       *)
(***************************************************************************)
EXTENDS Integers, Sequences, FiniteSets, TLC

VARIABLES boosts, pc, args, result, cast

vars == <<boosts, pc, args, result, cast>>

(***************************************************************************)
(* Bounds of the model.                                                    *)
(***************************************************************************)
\* image sides 0..MaxDim are enumerated exhaustively (besides the fixed sizes)
MaxDim == 4
\* requested widths and heights -1..MaxTarget are enumerated exhaustively
MaxTarget == 3
\* thirds() is evaluated at k / (3 * ThirdsRes) for k in 0 .. 6 * ThirdsRes
ThirdsRes == 20
\* importance() is computed at the points (0 .. MaxPoint) x (0 .. MaxPoint)
MaxPoint == 4

(***************************************************************************)
(* Fixed point and the options of SmartCrop.__init__ (their defaults).     *)
(***************************************************************************)
\* steps per 1.0: a multiple of 3 and of 100, so 1/3, 0.4, 0.5, 1.41 are exact
Unit == 3 * 100

edge_radius == (4 * Unit) \div 10
edge_weight == -20
outside_importance == -(Unit \div 2)
rule_of_thirds == TRUE
score_down_sample == 8
\* the weights of score(), times 10: 0.2, 1.8, 0.3, 100
detail_weight10 == 2
skin_weight10 == 18
saturation_weight10 == 3
boost_weight10 == 100 * 10
\* the biases of score(), in thousandths: 0.01 and 0.2
skin_bias1000 == 10
saturation_bias1000 == 2 * 100

(***************************************************************************)
(* Rational arithmetic on pairs <<n, d>>, d > 0.                           *)
(***************************************************************************)
Abs(n) == IF n < 0 THEN -n ELSE n

RECURSIVE GCD(_, _)
GCD(a, b) == IF b = 0 THEN a ELSE GCD(b, a % b)

\* n / d for d # 0, in lowest terms with a positive denominator
Rat(n, d) == LET g == GCD(Abs(n), Abs(d)) s == IF d < 0 THEN -1 ELSE 1 IN <<(s * n) \div g, (s * d) \div g>>

RInt(n) == <<n, 1>>
RLt(a, b) == a[1] * b[2] < b[1] * a[2]
RLe(a, b) == a[1] * b[2] <= b[1] * a[2]
RMin(a, b) == IF RLe(a, b) THEN a ELSE b
RMax(a, b) == IF RLt(a, b) THEN b ELSE a
RMul(a, b) == Rat(a[1] * b[1], a[2] * b[2])
RAdd(a, b) == Rat(a[1] * b[2] + b[1] * a[2], a[2] * b[2])
RSub(a, b) == Rat(a[1] * b[2] - b[1] * a[2], a[2] * b[2])
\* a / b for b # 0
RDiv(a, b) == Rat(a[1] * b[2], a[2] * b[1])
RAbs(a) == <<Abs(a[1]), a[2]>>

\* math.floor
Floor(a) == a[1] \div a[2]
\* math.ceil
Ceil(a) == -((-a[1]) \div a[2])
\* int(): truncation toward zero
Trunc(a) == IF a[1] >= 0 THEN a[1] \div a[2] ELSE -((-a[1]) \div a[2])

\* math.sqrt on a fixed-point square: the largest r with r * r <= n, sought
\* by bisection in lo .. hi
RECURSIVE SqrtIn(_, _, _)
SqrtIn(n, lo, hi) ==
  IF lo >= hi THEN lo
  ELSE LET mid == (lo + hi + 1) \div 2
       IN  IF mid * mid <= n THEN SqrtIn(n, mid, hi) ELSE SqrtIn(n, lo, mid - 1)

ISqrt(n) == SqrtIn(n, 0, 2 * Unit)

Max(a, b) == IF a >= b THEN a ELSE b
Min(a, b) == IF a <= b THEN a ELSE b

(***************************************************************************)
(* thirds(x), library.py:27-31, at x = n / d (n >= 0, d > 0); the value is *)
(* in fixed point.  With m = (3n + 2d) mod 6d, (x + 2/3) % 2 = m / 3d and  *)
(* the code's x = (m/3d * 0.5 - 0.5) * 16 = 8 (m - 3d) / 3d.               *)
(***************************************************************************)
\* the offset 2/3 of thirds() replaced by 1/3
ThirdsShifted(n, d) == LET m == (3 * n + d) % (6 * d) sq == 64 * (m - 3 * d) * (m - 3 * d) IN IF sq >= 9 * d * d THEN 0 ELSE Unit - (Unit * sq) \div (9 * d * d)

thirds(n, d) ==
  LET m == (3 * n + 2 * d) % (6 * d)
      sq == 64 * (m - 3 * d) * (m - 3 * d)
  IN  IF sq >= 9 * d * d THEN 0 ELSE Unit - (Unit * sq) \div (9 * d * d)


(***************************************************************************)
(* SmartCrop.importance, library.py:355-376.  A crop is a record with x, y *)
(* and width100, height100 (hundredths).  The value is in fixed point.     *)
(***************************************************************************)
\* library.py:356-359: the point is outside the half-open rectangle
Outside(crop, x, y) ==
  \/ crop.x > x
  \/ 100 * x >= 100 * crop.x + crop.width100
  \/ crop.y > y
  \/ 100 * y >= 100 * crop.y + crop.height100

\* library.py:362-364: abs(0.5 - (v - origin) / size) * 2, in fixed point
Offset(v, origin, size100) == (Unit * Abs(size100 - 200 * (v - origin))) \div size100

\* library.py:364-376, from the two normalised offsets px, py
Inside(px, py) ==
  LET dx == Max(px - Unit + edge_radius, 0)
      dy == Max(py - Unit + edge_radius, 0)
      \* (dx * dx + dy * dy) * edge_weight
      d  == -(((-edge_weight) * (dx * dx + dy * dy)) \div Unit)
      s  == (141 * Unit) \div 100 - ISqrt(px * px + py * py)
      \* s + max(0, s + d + 0.5) * 1.2 * (thirds(px) + thirds(py))
      s3 == s + (Max(0, s + d + Unit \div 2) * 6 * (thirds(px, Unit) + thirds(py, Unit))) \div (5 * Unit)
  IN  IF rule_of_thirds THEN s3 + d ELSE s + d

\* the normalised offset taken from the absolute position, not from x - crop.x
ImportanceAbsolute(crop, x, y) == IF Outside(crop, x, y) THEN outside_importance ELSE Inside(Offset(x, 0, crop.width100), Offset(y, crop.y, crop.height100))

importance(crop, x, y) ==
  IF Outside(crop, x, y)
  THEN outside_importance
  ELSE Inside(Offset(x, crop.x, crop.width100), Offset(y, crop.y, crop.height100))

(***************************************************************************)
(* Image.thumbnail((x, y)) of Pillow (9.1 and later, the versions that     *)
(* have Image.Resampling), called at library.py:112-117 and 167-169: the   *)
(* size the image gets, or the error the call raises.  The requested size  *)
(* is fitted to the image's aspect ratio; resize() rejects a side < 1.     *)
(***************************************************************************)
\* round_aspect(number, key): max(min(floor, ceil, key = key), 1); min() keeps the first of equals
RoundAspect(number, keyFloor, keyCeil) ==
  Max(IF RLe(keyFloor, keyCeil) THEN Floor(number) ELSE Ceil(number), 1)

\* the key of the height branch: 0 if n == 0 else abs(aspect - x / n)
HeightKey(aspect, x, n) == IF n = 0 THEN RInt(0) ELSE RAbs(RSub(aspect, Rat(x, n)))

ThumbnailSize(W, H, x, y) ==
  IF x >= W /\ y >= H THEN [error |-> "", w |-> W, h |-> H]
  ELSE IF H = 0 \/ y = 0 THEN [error |-> "ZeroDivisionError", w |-> W, h |-> H]
  ELSE
    LET aspect == Rat(W, H)
        wide == RLe(aspect, Rat(x, y))
        nx == RMul(RInt(y), aspect)
        ny == IF W = 0 THEN RInt(0) ELSE RDiv(RInt(x), aspect)
        tx == IF wide
              THEN RoundAspect(nx, RAbs(RSub(aspect, Rat(Floor(nx), y))), RAbs(RSub(aspect, Rat(Ceil(nx), y))))
              ELSE x
        ty == IF wide
              THEN y
              ELSE RoundAspect(ny, HeightKey(aspect, x, Floor(ny)), HeightKey(aspect, x, Ceil(ny)))
    IN  IF ~wide /\ W = 0 THEN [error |-> "ZeroDivisionError", w |-> W, h |-> H]
        ELSE IF tx = W /\ ty = H THEN [error |-> "", w |-> W, h |-> H]
        ELSE IF tx < 1 \/ ty < 1 THEN [error |-> "ValueError", w |-> W, h |-> H]
        ELSE [error |-> "", w |-> tx, h |-> ty]

(***************************************************************************)
(* SmartCrop.crops, library.py:202-234.                                    *)
(***************************************************************************)
\* range(a, b, -c) for c > 0: a, a - c, ... while above b
RECURSIVE RangeDown(_, _, _)
RangeDown(a, b, c) == IF a > b THEN <<a>> \o RangeDown(a - c, b, c) ELSE <<>>

\* library.py:214-219: the scale grid, as the integers i of scale = i / 100
ScaleGrid(max_scale, min_scale, scale_step) ==
  RangeDown(Trunc(RMul(max_scale, RInt(100))),
            Trunc(RMul(RSub(min_scale, scale_step), RInt(100))),
            Trunc(RMul(scale_step, RInt(100))))

\* the placement test with the crop's extent ignored
FitsLoose(pos, size, i, limit) == pos <= limit

\* library.py:221 and 224, negated: not (pos + size * scale > limit), scale = i / 100
Fits(pos, size, i, limit) == 100 * pos + size * i <= 100 * limit

\* library.py:223-231: the x loop of one row, from x on
RECURSIVE RowCrops(_, _, _, _, _, _, _)
RowCrops(x, y, i, W, cw, ch, step) ==
  IF x >= W \/ ~Fits(x, cw, i, W) THEN <<>>
  ELSE <<[x |-> x, y |-> y, width100 |-> cw * i, height100 |-> ch * i]>>
         \o RowCrops(x + step, y, i, W, cw, ch, step)

\* the y loop leaving after its first row
FirstRowOnly(y, i, W, H, cw, ch, step) == IF y > 0 \/ y >= H \/ ~Fits(y, ch, i, H) THEN <<>> ELSE RowCrops(0, y, i, W, cw, ch, step)

\* library.py:220-231: the y loop of one scale, from y on
RECURSIVE ScaleCrops(_, _, _, _, _, _, _)
ScaleCrops(y, i, W, H, cw, ch, step) ==
  IF y >= H \/ ~Fits(y, ch, i, H) THEN <<>>
  ELSE RowCrops(0, y, i, W, cw, ch, step) \o ScaleCrops(y + step, i, W, H, cw, ch, step)

\* library.py:214-231: the scales of the grid from its k-th on
RECURSIVE GridCrops(_, _, _, _, _, _, _)
GridCrops(grid, k, W, H, cw, ch, step) ==
  IF k > Len(grid) THEN <<>>
  ELSE ScaleCrops(0, grid[k], W, H, cw, ch, step) \o GridCrops(grid, k + 1, W, H, cw, ch, step)

\* the generator without its check of an empty list
CropsUnchecked(W, H, cw, ch, max_scale, min_scale, scale_step, step) == [error |-> "", list |-> GridCrops(ScaleGrid(max_scale, min_scale, scale_step), 1, W, H, cw, ch, step)]

\* library.py:212-234: the list of candidates, or ValueError for an empty list
crops(W, H, cw, ch, max_scale, min_scale, scale_step, step) ==
  LET list == GridCrops(ScaleGrid(max_scale, min_scale, scale_step), 1, W, H, cw, ch, step)
  IN  IF list = <<>> THEN [error |-> "ValueError", list |-> <<>>]
      ELSE [error |-> "", list |-> list]

(***************************************************************************)
(* The four channels of the score image.                                   *)
(***************************************************************************)
\* library.py:96-102 and 111-117: skin, detail (edge) and saturation of an
\* image of a content kind, at cell (i, j) of the score image
Feature(kind, i, j) ==
  CASE kind = "flat" -> [skin |-> 0, detail |-> 0, saturation |-> 0]
    [] kind = "spot" -> IF i = 0 /\ j = 0
                        THEN [skin |-> 200, detail |-> 100, saturation |-> 50]
                        ELSE [skin |-> 0, detail |-> 0, saturation |-> 0]
    [] OTHER         -> [skin |-> 0, detail |-> 255, saturation |-> 0]

\* a boosts value: None, or a list of regions
None == [none |-> TRUE, regions |-> <<>>]
Boosts(regions) == [none |-> FALSE, regions |-> regions]

\* what astype('uint8') makes of a value outside 0 .. 255: the conversion is
\* undefined there, and a build either keeps the low eight bits or saturates
Casts == {"wrap", "saturate"}

\* astype('uint8'), library.py:345, of an integral value
Uint8(v) ==
  IF 0 <= v /\ v <= 255 THEN v
  ELSE IF cast = "wrap" THEN v % 256
  ELSE IF v < 0 THEN 0 ELSE 255

\* library.py:347-353: what the regions from the k-th on add to pixel (x, y);
\* a region's x, y, width, height are rationals
RECURSIVE BoostSum(_, _, _, _)
BoostSum(bs, k, x, y) ==
  IF k > Len(bs) THEN 0
  ELSE LET b  == bs[k]
           x0 == Trunc(b.x)
           x1 == Trunc(RAdd(b.x, b.width))
           y0 == Trunc(b.y)
           y1 == Trunc(RAdd(b.y, b.height))
       IN  (IF x0 <= x /\ x < x1 /\ y0 <= y /\ y < y1 THEN b.weight * 255 ELSE 0)
             + BoostSum(bs, k + 1, x, y)

\* library.py:339-345: the boost channel at pixel (x, y); bs is self.boosts
applyBoosts(bs, x, y) == IF bs.none THEN 0 ELSE Uint8(BoostSum(bs.regions, 1, x, y))

\* library.py:339-345: the image applyBoosts() returns for a W x H image, row
\* by row: pixel n is column (n - 1) % W of row (n - 1) \div W
BoostChannel(bs, W, H) == [n \in 1 .. W * H |-> applyBoosts(bs, (n - 1) % W, (n - 1) \div W)]

\* the sum of the boost channel over pixels lo .. hi of a block of width w
\* whose first pixel is (x0, y0), by halves
RECURSIVE SumBoost(_, _, _, _, _, _)
SumBoost(bs, lo, hi, x0, y0, w) ==
  IF lo > hi THEN 0
  ELSE IF lo = hi THEN applyBoosts(bs, x0 + (lo % w), y0 + (lo \div w))
  ELSE LET mid == (lo + hi) \div 2
       IN  SumBoost(bs, lo, mid, x0, y0, w) + SumBoost(bs, mid + 1, hi, x0, y0, w)

\* library.py:103-117: the boost channel at cell (i, j) of the score image of a
\* W x H analysis image: the mean over the cell's block of pixels stands for
\* the resampling filter
BoostCell(bs, i, j, W, H) ==
  IF bs.none THEN 0
  ELSE LET x0 == i * score_down_sample
           y0 == j * score_down_sample
           x1 == Min(x0 + score_down_sample, W) - 1
           y1 == Min(y0 + score_down_sample, H) - 1
       IN  IF x1 < x0 \/ y1 < y0 THEN 0
           ELSE SumBoost(bs, 0, (x1 - x0 + 1) * (y1 - y0 + 1) - 1, x0, y0, x1 - x0 + 1)
                  \div ((x1 - x0 + 1) * (y1 - y0 + 1))

(***************************************************************************)
(* SmartCrop.score, library.py:378-419.                                    *)
(***************************************************************************)
\* a < b for rationals, by their continued fractions: no product of a
\* numerator and a denominator is formed
RECURSIVE FracLt(_, _)
FracLt(a, b) ==
  LET qa == a[1] \div a[2]
      qb == b[1] \div b[2]
      ra == a[1] % a[2]
      rb == b[1] % b[2]
  IN  IF qa # qb THEN qa < qb
      ELSE IF rb = 0 THEN FALSE
      ELSE IF ra = 0 THEN TRUE
      ELSE FracLt(<<b[2], rb>>, <<a[2], ra>>)

\* library.py:111-117: the size of the score image of a W x H analysis image
ScoreSize(W, H) ==
  ThumbnailSize(W, H, Ceil(Rat(W, score_down_sample)), Ceil(Rat(H, score_down_sample)))

\* library.py:96-117: the score image of the given size, row by row: cell n
\* is column (n - 1) % size.w of row (n - 1) \div size.w
ScoreCells(bs, kind, W, H, size) ==
  [n \in 1 .. size.w * size.h |->
     [skin |-> Feature(kind, (n - 1) % size.w, (n - 1) \div size.w).skin,
      detail |-> Feature(kind, (n - 1) % size.w, (n - 1) \div size.w).detail,
      saturation |-> Feature(kind, (n - 1) % size.w, (n - 1) \div size.w).saturation,
      boost |-> BoostCell(bs, (n - 1) % size.w, (n - 1) \div size.w, W, H),
      x |-> ((n - 1) % size.w) * score_down_sample,
      y |-> ((n - 1) \div size.w) * score_down_sample]]

ScoreImage(bs, kind, W, H) == ScoreCells(bs, kind, W, H, ScoreSize(W, H))

\* library.py:401-411: what a cell of the score image adds to the weighted sum
\* of library.py:412-417, in tenths of fixed-point steps, given its importance
Weighted(cell, imp) ==
  ((cell.detail * imp) \div 255) * detail_weight10
    + ((cell.skin * ((cell.detail * 1000) \div 255 + skin_bias1000) * imp) \div (255 * 1000))
        * skin_weight10
    + ((cell.saturation * ((cell.detail * 1000) \div 255 + saturation_bias1000) * imp)
         \div (255 * 1000)) * saturation_weight10
    + ((cell.boost * imp) \div 255) * boost_weight10

\* library.py:400-411
CellScore(cell, crop) == Weighted(cell, importance(crop, cell.x, cell.y))

\* library.py:394-411: the sum over cells lo .. hi of the score image, by halves
RECURSIVE WeightedSum(_, _, _, _)
WeightedSum(target, lo, hi, crop) ==
  IF lo > hi THEN 0
  ELSE IF lo = hi THEN CellScore(target[lo], crop)
  ELSE LET mid == (lo + hi) \div 2
       IN  WeightedSum(target, lo, mid, crop) + WeightedSum(target, mid + 1, hi, crop)

\* library.py:412-417: score['total'], a rational: the weighted sum over the
\* crop's area (in steps per 10^-4 pixel^2); the area is not 0
score(target, crop) ==
  Rat(WeightedSum(target, 1, Len(target), crop), crop.width100 * crop.height100)

(***************************************************************************)
(* SmartCrop.analyse, library.py:81-138.                                   *)
(***************************************************************************)
\* a later candidate of equal total replaces the top crop
BetterOrEqual(total, top_score) == ~FracLt(total, top_score)

\* library.py:133: crop['score']['total'] > top_score
Better(total, top_score) == FracLt(top_score, total)

\* library.py:119-135: the index of the top crop among the first k scored
\* candidates (0: None).  top_score starts at -sys.maxsize, below every total
RECURSIVE TopCrop(_, _)
TopCrop(scored, k) ==
  IF k = 0 THEN 0
  ELSE LET t == TopCrop(scored, k - 1)
       IN  IF t = 0 \/ Better(scored[k].total, scored[t].total) THEN k ELSE t

\* what a call leaves to its caller: the operation, whether it returned or
\* raised (and where), the candidates as crops() made them and as they are
\* returned, the index of the top crop, the size and boost channel of the
\* score image; value and shifted hold the result of a pure function, channel
\* the image applyBoosts() returns, row by row
NoResult ==
  [op |-> "none", status |-> "none", error |-> "", stage |-> "", analysed |-> FALSE,
   generated |-> <<>>, crops |-> <<>>, top |-> 0, prescale_size |-> <<1, 1>>,
   size |-> <<0, 0>>, boost |-> <<>>, value |-> 0, shifted |-> 0, channel |-> <<>>]

\* an exception leaves the call at a stage; analysed tells whether the
\* feature extraction of library.py:96-117 ran before it
Raised(op, error, stage, analysed) ==
  [NoResult EXCEPT !.op = op, !.status = "error", !.error = error, !.stage = stage,
                   !.analysed = analysed]

\* library.py:131-138: the scored candidates and the top crop among them
Ranked(W, H, target, list, scored) ==
  [NoResult EXCEPT !.op = "analyse", !.status = "ok", !.analysed = TRUE, !.generated = list,
                   !.crops = scored, !.top = TopCrop(scored, Len(scored)),
                   !.size = <<W, H>>, !.boost = [n \in 1 .. Len(target) |-> target[n].boost]]

\* library.py:122-138, given the score image and what crops() made
Analysed(W, H, target, made) ==
  IF made.error # ""
  THEN [Raised("analyse", made.error, "crops", TRUE)
          EXCEPT !.size = <<W, H>>, !.boost = [n \in 1 .. Len(target) |-> target[n].boost]]
  ELSE IF \E k \in 1 .. Len(made.list) : made.list[k].width100 * made.list[k].height100 = 0
  THEN [Raised("analyse", "ZeroDivisionError", "score", TRUE)
          EXCEPT !.generated = made.list, !.size = <<W, H>>,
                 !.boost = [n \in 1 .. Len(target) |-> target[n].boost]]
  ELSE Ranked(W, H, target, made.list,
              [k \in 1 .. Len(made.list) |->
                 [x |-> made.list[k].x, y |-> made.list[k].y,
                  width100 |-> made.list[k].width100, height100 |-> made.list[k].height100,
                  total |-> score(target, made.list[k])]])

\* bs is self.boosts; the image is W x H of a content kind
analyse(bs, W, H, kind, crop_width, crop_height, max_scale, min_scale, scale_step, step) ==
  Analysed(W, H, ScoreImage(bs, kind, W, H),
           crops(W, H, crop_width, crop_height, max_scale, min_scale, scale_step, step))

(***************************************************************************)
(* SmartCrop.crop, library.py:140-200.                                     *)
(***************************************************************************)
\* library.py:173-180: the regions multiplied by prescale_size, the weight kept
ScaleBoosts(bs, p) ==
  IF bs.none THEN bs
  ELSE Boosts([k \in 1 .. Len(bs.regions) |->
                 [x |-> RMul(bs.regions[k].x, p), y |-> RMul(bs.regions[k].y, p),
                  width |-> RMul(bs.regions[k].width, p),
                  height |-> RMul(bs.regions[k].height, p),
                  weight |-> bs.regions[k].weight]])

\* the candidates returned as they were searched, not divided by prescale_size
RescaleKept(v, p) == Floor(v)

\* library.py:195-198: int(math.floor(v / prescale_size))
Rescale(v, p) == Floor(RDiv(v, p))

\* library.py:193-199
RescaleCrop(c, p) ==
  [x |-> Rescale(RInt(c.x), p), y |-> Rescale(RInt(c.y), p),
   width |-> Rescale(Rat(c.width100, 100), p), height |-> Rescale(Rat(c.height100, 100), p),
   total |-> c.total]

\* library.py:193-200: the result of analyse(), its candidates rescaled
Finished(r, p) ==
  IF r.status = "ok"
  THEN [r EXCEPT !.op = "crop", !.prescale_size = p,
                 !.crops = [k \in 1 .. Len(r.crops) |-> RescaleCrop(r.crops[k], p)]]
  ELSE [r EXCEPT !.op = "crop", !.prescale_size = p]

\* library.py:184-200: analyse() on the working image, then the rescaling
Searched(bs, W, H, a, crop_width, crop_height, min_scale, p) ==
  [boosts |-> bs,
   result |-> Finished(analyse(bs, W, H, a.image.kind, crop_width, crop_height, a.max_scale,
                               min_scale, a.scale_step, a.step), p)]

\* library.py:165-183, for prescale_size = p and the thumbnail t of the image
Shrunk(a, crop_width, crop_height, min_scale, p, t) ==
  IF ~RLt(p, RInt(1))
  THEN Searched(a.boosts, a.image.w, a.image.h, a, crop_width, crop_height, min_scale, RInt(1))
  ELSE IF t.error # ""
  THEN [boosts |-> a.boosts, result |-> Raised("crop", t.error, "thumbnail", FALSE)]
  ELSE Searched(ScaleBoosts(a.boosts, p), t.w, t.h, a,
                Floor(RMul(RInt(crop_width), p)), Floor(RMul(RInt(crop_height), p)),
                min_scale, p)

\* library.py:162-169: the working image for prescale_size = p
Prescaled(a, crop_width, crop_height, min_scale, p) ==
  Shrunk(a, crop_width, crop_height, min_scale, p,
         IF RLt(p, RInt(1))
         THEN ThumbnailSize(a.image.w, a.image.h, Trunc(RMul(RInt(a.image.w), p)),
                            Trunc(RMul(RInt(a.image.h), p)))
         ELSE [error |-> "", w |-> a.image.w, h |-> a.image.h])

\* the search always on the image as given, prescale_size 1
PrescaleIgnored(a, scale, crop_width, crop_height, min_scale) == Prescaled(a, crop_width, crop_height, min_scale, RInt(1))

\* library.py:162-164: prescale_size, 1 when prescale is disabled
Bounded(a, scale, crop_width, crop_height, min_scale) ==
  IF a.prescale /\ min_scale[1] = 0
  THEN [boosts |-> a.boosts, result |-> Raised("crop", "ZeroDivisionError", "scale", FALSE)]
  ELSE Prescaled(a, crop_width, crop_height, min_scale,
                 IF a.prescale THEN RDiv(RDiv(RInt(1), scale), min_scale) ELSE RInt(1))

\* library.py:155-160, for the scale of library.py:154
Scaled(a, scale) ==
  IF scale[1] = 0
  THEN [boosts |-> a.boosts, result |-> Raised("crop", "ZeroDivisionError", "scale", FALSE)]
  ELSE Bounded(a, scale, Floor(RMul(RInt(a.width), scale)), Floor(RMul(RInt(a.height), scale)),
               RMin(a.max_scale, RMax(RDiv(RInt(1), scale), a.min_scale)))

\* the whole of crop(): self.boosts and the result after the call.  a is the
\* record of the call's arguments; self.boosts is set to a.boosts first
crop(a) ==
  IF a.width = 0 \/ a.height = 0
  THEN [boosts |-> a.boosts, result |-> Raised("crop", "ZeroDivisionError", "scale", FALSE)]
  ELSE Scaled(a, RMin(Rat(a.image.w, a.width), Rat(a.image.h, a.height)))

(***************************************************************************)
(* The calls the model makes.                                              *)
(***************************************************************************)
Default == [max_scale |-> <<1, 1>>, min_scale |-> <<9, 10>>, scale_step |-> <<1, 10>>]

\* one boost region, as a face detector supplies it
Region == [x |-> <<2, 1>>, y |-> <<2, 1>>, width |-> <<4, 1>>, height |-> <<4, 1>>, weight |-> 1]

\* a second region, which shares the pixels (4 .. 5) x (4 .. 5) with the first
Region2 == [x |-> <<4, 1>>, y |-> <<4, 1>>, width |-> <<4, 1>>, height |-> <<4, 1>>, weight |-> 1]

CropCall(W, H, kind, width, height, prescale, scales, step, bs) ==
  [image |-> [w |-> W, h |-> H, kind |-> kind], width |-> width, height |-> height,
   prescale |-> prescale, max_scale |-> scales.max_scale, min_scale |-> scales.min_scale,
   scale_step |-> scales.scale_step, step |-> step, boosts |-> bs]

\* every small image with every small request; an image of zero area is paired
\* with requests >= 0 only
SmallCrops ==
  {c \in {CropCall(W, H, "flat", w, h, ps, Default, st, None) :
            W \in 0 .. MaxDim, H \in 0 .. MaxDim, w \in -1 .. MaxTarget,
            h \in -1 .. MaxTarget, ps \in BOOLEAN, st \in {1, 8}} :
     (c.image.w = 0 \/ c.image.h = 0) => (c.width >= 0 /\ c.height >= 0)}

\* the 100 x 100 image of the documented scenarios
ScenarioCrops ==
  {CropCall(100, 100, "flat", t[1], t[2], ps, Default, st, None) :
     t \in {<<50, 50>>, <<95, 95>>, <<1000, 1>>, <<-50, 50>>, <<-50, -50>>},
     ps \in BOOLEAN, st \in {8, 50}}

\* images with content and boost regions
ContentCrops ==
  {CropCall(s[1], s[2], kind, t[1], t[2], ps, Default, st, bs) :
     s \in {<<16, 16>>, <<20, 8>>, <<40, 16>>}, kind \in {"flat", "spot", "even"},
     t \in {<<8, 8>>, <<19, 7>>}, ps \in BOOLEAN, st \in {4, 8}, bs \in {None, Boosts(<<Region>>), Boosts(<<Region, Region2>>)}}

CropCalls == SmallCrops \cup ScenarioCrops \cup ContentCrops

AnalyseCall(W, H, kind, crop_width, crop_height, scales, step) ==
  [image |-> [w |-> W, h |-> H, kind |-> kind], crop_width |-> crop_width,
   crop_height |-> crop_height, max_scale |-> scales.max_scale,
   min_scale |-> scales.min_scale, scale_step |-> scales.scale_step, step |-> step]

AnalyseScales ==
  {Default, [Default EXCEPT !.min_scale = <<1, 1>>],
   [Default EXCEPT !.min_scale = <<1, 2>>, !.scale_step = <<1, 4>>]}

AnalyseCalls ==
  {AnalyseCall(W, H, kind, cw, ch, sc, st) :
     W \in 1 .. MaxDim, H \in 1 .. MaxDim, kind \in {"flat", "spot"},
     cw \in 0 .. MaxTarget + 1, ch \in 0 .. MaxTarget + 1, sc \in AnalyseScales, st \in {1, 8}}
  \cup {AnalyseCall(16, 16, kind, t[1], t[2], Default, st) :
          kind \in {"flat", "spot", "even"}, t \in {<<8, 8>>, <<16, 8>>}, st \in {4, 8}}

\* direct calls of crops(), images of zero area among them
CropsCalls ==
  {AnalyseCall(W, H, "flat", cw, ch, sc, st) :
     W \in 0 .. MaxDim, H \in 0 .. MaxDim, cw \in -1 .. MaxTarget + 1,
     ch \in -1 .. MaxTarget + 1, sc \in AnalyseScales, st \in {1, 8}}

\* thirds(x) at the multiples x = n / (3 * ThirdsRes) of [0, 2]
ThirdsCalls == {[n |-> n, d |-> 3 * ThirdsRes] : n \in 0 .. 6 * ThirdsRes}

\* importance(crop, x, y) and the same after a translation by (dx, dy)
ImportanceCalls ==
  {[crop |-> [x |-> cx, y |-> cy, width100 |-> w, height100 |-> h],
    x |-> x, y |-> y, dx |-> dx, dy |-> dy] :
     cx \in 0 .. 1, cy \in 0 .. 1, w \in {180, 200, 300}, h \in {180, 200, 300},
     x \in 0 .. MaxPoint, y \in 0 .. MaxPoint, dx \in -1 .. 1, dy \in -1 .. 1}

\* direct calls of applyBoosts(image)
BoostCalls ==
  {[image |-> [w |-> W, h |-> H, kind |-> "flat"]] :
     W \in (1 .. MaxDim) \cup {8}, H \in (1 .. MaxDim) \cup {8}}

NoArgs == [image |-> [w |-> 0, h |-> 0, kind |-> "flat"]]

(***************************************************************************)
(* The object: self.boosts, and the call in progress.                      *)
(***************************************************************************)
\* library.py:38-79: SmartCrop.__init__
Init ==
  /\ boosts = None
  /\ cast \in Casts
  /\ pc = "idle"
  /\ args = NoArgs
  /\ result = NoResult

\* a caller calls crop(image, width, height, ...)
CallCrop ==
  /\ pc = "idle"
  /\ \E a \in CropCalls : args' = a
  /\ pc' = "crop"
  /\ UNCHANGED <<boosts, result, cast>>

\* a caller calls analyse(image, crop_width, crop_height, ...)
CallAnalyse ==
  /\ pc = "idle"
  /\ \E a \in AnalyseCalls : args' = a
  /\ pc' = "analyse"
  /\ UNCHANGED <<boosts, result, cast>>

\* thumbnail() applied to the image object the caller passed
ThumbnailInPlace(image, done) == IF done.result.analysed THEN [image EXCEPT !.w = done.result.size[1], !.h = done.result.size[2]] ELSE image

\* library.py:166-169: the caller's image after the call.  thumbnail() acts
\* on the object image.copy() returned, and nothing else writes an image
CallerImage(image, done) == image

\* library.py:173-180: the caller's boosts after the call.  The regions are
\* built anew, in a new list, and only self.boosts is bound to it
CallerBoosts(bs, done) == bs

\* library.py:140-200: crop() runs and returns or raises; args holds the
\* objects the caller passed, as they are after the call
Crop ==
  /\ pc = "crop"
  /\ \E done \in {crop(args)} :
       /\ boosts' = done.boosts
       /\ result' = done.result
       /\ args' = [args EXCEPT !.image = CallerImage(args.image, done),
                               !.boosts = CallerBoosts(args.boosts, done)]
  /\ pc' = "done"
  /\ UNCHANGED cast

\* library.py:81-138: analyse() runs and returns or raises
Analyse ==
  /\ pc = "analyse"
  /\ result' = analyse(boosts, args.image.w, args.image.h, args.image.kind, args.crop_width,
                       args.crop_height, args.max_scale, args.min_scale, args.scale_step,
                       args.step)
  /\ pc' = "done"
  /\ UNCHANGED <<boosts, args, cast>>

\* a caller calls crops(image, crop_width, crop_height, ...)
CallCrops ==
  /\ pc = "idle"
  /\ \E a \in CropsCalls : args' = a
  /\ pc' = "crops"
  /\ UNCHANGED <<boosts, result, cast>>

\* library.py:202-234: crops() runs and returns or raises
Crops ==
  /\ pc = "crops"
  /\ \E made \in {crops(args.image.w, args.image.h, args.crop_width, args.crop_height,
                         args.max_scale, args.min_scale, args.scale_step, args.step)} :
       result' = IF made.error # ""
                 THEN Raised("crops", made.error, "crops", FALSE)
                 ELSE [NoResult EXCEPT !.op = "crops", !.status = "ok",
                                       !.generated = made.list]
  /\ pc' = "done"
  /\ UNCHANGED <<boosts, args, cast>>

\* a caller calls applyBoosts(image)
CallApplyBoosts ==
  /\ pc = "idle"
  /\ \E a \in BoostCalls : args' = a
  /\ pc' = "applyBoosts"
  /\ UNCHANGED <<boosts, result, cast>>

\* library.py:339-345: applyBoosts() runs and returns the boost channel
ApplyBoosts ==
  /\ pc = "applyBoosts"
  /\ result' = [NoResult EXCEPT !.op = "applyBoosts", !.status = "ok",
                                !.size = <<args.image.w, args.image.h>>,
                                !.channel = BoostChannel(boosts, args.image.w, args.image.h)]
  /\ pc' = "done"
  /\ UNCHANGED <<boosts, args, cast>>

\* the caller takes the result; the object keeps self.boosts
Return ==
  /\ pc = "done"
  /\ pc' = "idle"
  /\ args' = NoArgs
  /\ result' = NoResult
  /\ UNCHANGED <<boosts, cast>>

Next ==
  \/ CallCrop \/ CallAnalyse \/ CallCrops \/ CallApplyBoosts
  \/ Crop \/ Analyse \/ Crops \/ ApplyBoosts \/ Return

Spec == Init /\ [][Next]_vars

(***************************************************************************)
(* thirds(x) alone, library.py:27-31.                                      *)
(***************************************************************************)
InitThirds ==
  /\ boosts = None
  /\ cast \in Casts
  /\ pc = "thirds"
  /\ args \in ThirdsCalls
  /\ result = NoResult

Thirds ==
  /\ pc = "thirds"
  /\ result' = [NoResult EXCEPT !.op = "thirds", !.status = "ok",
                                !.value = thirds(args.n, args.d)]
  /\ pc' = "done"
  /\ UNCHANGED <<boosts, args, cast>>

SpecThirds == InitThirds /\ [][Thirds]_vars

(***************************************************************************)
(* importance(crop, x, y) alone, library.py:355-376.                       *)
(***************************************************************************)
\* the crop moved by (dx, dy)
Shifted(c, dx, dy) == [c EXCEPT !.x = @ + dx, !.y = @ + dy]

InitImportance ==
  /\ boosts = None
  /\ cast \in Casts
  /\ pc = "importance"
  /\ args \in ImportanceCalls
  /\ result = NoResult

Importance ==
  /\ pc = "importance"
  /\ result' = [NoResult EXCEPT
                  !.op = "importance", !.status = "ok",
                  !.value = importance(args.crop, args.x, args.y),
                  !.shifted = importance(Shifted(args.crop, args.dx, args.dy),
                                         args.x + args.dx, args.y + args.dy)]
  /\ pc' = "done"
  /\ UNCHANGED <<boosts, args, cast>>

SpecImportance == InitImportance /\ [][Importance]_vars

(***************************************************************************)
(* The documented properties of analyse(), crop() and crops(), on the      *)
(* states a finished call leaves (pc = "done").                            *)
(***************************************************************************)
Returned(ops) == pc = "done" /\ result.op \in ops /\ result.status = "ok"

\* candidate b is generated after candidate a: at a smaller scale, or at the
\* same scale in a later row, or in the same row further right
After(a, b) ==
  \/ Abs(b.width100) < Abs(a.width100)
  \/ /\ b.width100 = a.width100
     /\ b.height100 = a.height100
     /\ (a.y < b.y \/ (a.y = b.y /\ a.x < b.x))

\* C1: when analyse() or crop() returns, the top crop's total is the maximum
\* of the totals of the returned candidates and no candidate before it in the
\* list has that total; the list is in generation order (scale descending,
\* then y ascending, then x ascending)
C1_TopIsFirstMaximum ==
  Returned({"analyse", "crop"}) =>
    /\ result.top \in 1 .. Len(result.crops)
    /\ Len(result.generated) = Len(result.crops)
    /\ \A k \in 1 .. Len(result.crops) :
         ~FracLt(result.crops[result.top].total, result.crops[k].total)
    /\ \A k \in 1 .. result.top - 1 :
         FracLt(result.crops[k].total, result.crops[result.top].total)
    /\ \A k \in 1 .. Len(result.generated) - 1 :
         After(result.generated[k], result.generated[k + 1])

\* a returned list whose top crop is not the first candidate and shares its
\* total with a later one
C1_Witness ==
  /\ Returned({"analyse", "crop"})
  /\ result.top > 1
  /\ \E k \in result.top + 1 .. Len(result.crops) :
       result.crops[k].total = result.crops[result.top].total

\* C2: every candidate crop() returns lies inside the original image:
\* x >= 0, y >= 0, x + width <= image width, y + height <= image height
C2_CropsInsideImage ==
  Returned({"crop"}) =>
    \A k \in 1 .. Len(result.crops) :
      /\ result.crops[k].x >= 0
      /\ result.crops[k].y >= 0
      /\ result.crops[k].x + result.crops[k].width <= args.image.w
      /\ result.crops[k].y + result.crops[k].height <= args.image.h

\* a search on a shrunken image that returns a candidate away from the origin
C2_Witness ==
  /\ Returned({"crop"})
  /\ RLt(result.prescale_size, RInt(1))
  /\ \E k \in 1 .. Len(result.crops) : result.crops[k].x > 0 /\ result.crops[k].width > 0

\* C3: for a requested width and height > 0, every rectangle crops() makes
\* and every rectangle crop() returns has width > 0 and height > 0
C3_PositiveDimensions ==
  (pc = "done" /\ result.op = "crop" /\ args.width > 0 /\ args.height > 0) =>
    /\ \A k \in 1 .. Len(result.generated) :
         result.generated[k].width100 > 0 /\ result.generated[k].height100 > 0
    /\ \A k \in 1 .. Len(result.crops) :
         result.crops[k].width > 0 /\ result.crops[k].height > 0

\* crop() returns a rectangle of width 0 for a request of positive size
C3_Witness ==
  /\ Returned({"crop"})
  /\ args.width > 0 /\ args.height > 0
  /\ \E k \in 1 .. Len(result.crops) : result.crops[k].width = 0

\* some scale of the grid admits the placement x = 0, y = 0
FitsAtOrigin ==
  \E k \in 1 .. Len(ScaleGrid(args.max_scale, args.min_scale, args.scale_step)) :
    LET i == ScaleGrid(args.max_scale, args.min_scale, args.scale_step)[k]
    IN  args.crop_width * i <= 100 * args.image.w /\ args.crop_height * i <= 100 * args.image.h

RaisedNoCrops ==
  result.status = "error" /\ result.error = "ValueError" /\ result.stage = "crops"

\* C4 (as the code has it): crops() never returns an empty list.  For an
\* image of at least 1 x 1 it raises ValueError exactly when no scale of the
\* grid admits the placement x = 0, y = 0; for an image of zero width or
\* height it always raises
C4_RaisesIffNothingFits ==
  (pc = "done" /\ result.op \in {"crops", "analyse"}) =>
    /\ RaisedNoCrops <=> (args.image.w = 0 \/ args.image.h = 0 \/ ~FitsAtOrigin)
    /\ ~RaisedNoCrops => result.generated # <<>>

\* crops() raises for a crop wider than the image at min_scale = max_scale = 1
C4_Witness ==
  /\ pc = "done" /\ result.op = "crops"
  /\ args.image.w >= 1 /\ args.image.h >= 1
  /\ args.min_scale = <<1, 1>> /\ args.max_scale = <<1, 1>>
  /\ args.crop_width > args.image.w
  /\ RaisedNoCrops

\* C4 as documented: crops() raises ValueError exactly when no scale of the
\* grid admits the placement x = 0, y = 0, for every image
C4_AsDocumented ==
  (pc = "done" /\ result.op \in {"crops", "analyse"}) =>
    /\ RaisedNoCrops <=> ~FitsAtOrigin
    /\ ~RaisedNoCrops => result.generated # <<>>

\* C5: crop() raises before any analysis step runs when the image has zero
\* area or the requested width or height is <= 0
C5_DegenerateRejected ==
  (/\ pc = "done" /\ result.op = "crop"
   /\ \/ args.image.w = 0 \/ args.image.h = 0
      \/ args.width <= 0 \/ args.height <= 0) =>
    result.status = "error" /\ ~result.analysed

\* crop() returns candidates for a negative requested width
C5_Witness ==
  /\ Returned({"crop"})
  /\ args.width < 0
  /\ result.analysed
  /\ Len(result.crops) > 0

\* C6: the result of analyse() depends on its arguments only: it is what
\* analyse() computes on an object whose boosts are None, as constructed
C6_NoSharedState ==
  (pc = "done" /\ result.op = "analyse") =>
    result = analyse(None, args.image.w, args.image.h, args.image.kind, args.crop_width,
                     args.crop_height, args.max_scale, args.min_scale, args.scale_step,
                     args.step)

\* analyse() scores with boost regions an earlier crop() stored
C6_Witness ==
  /\ Returned({"analyse"})
  /\ ~boosts.none
  /\ \E n \in 1 .. Len(result.boost) : result.boost[n] > 0
  /\ result.crops[result.top].total # <<0, 1>>

\* C7: with max_scale = 1 and an image at least as large as the requested
\* size, every candidate crop() returns is at least as wide and as high as
\* requested
C7_NoUpscaling ==
  (/\ Returned({"crop"})
   /\ args.max_scale = <<1, 1>>
   /\ args.width > 0 /\ args.height > 0
   /\ args.image.w >= args.width /\ args.image.h >= args.height) =>
    \A k \in 1 .. Len(result.crops) :
      result.crops[k].width >= args.width /\ result.crops[k].height >= args.height

\* the 100 x 100 image with a 95 x 95 request: a 90 x 90 candidate
C7_Witness ==
  /\ Returned({"crop"})
  /\ args.image.w = 100 /\ args.image.h = 100 /\ args.width = 95 /\ args.height = 95
  /\ \E k \in 1 .. Len(result.crops) : result.crops[k].width = 90 /\ result.crops[k].height = 90

\* the call of the scenario: a 100 x 100 image with all channels 0, width 50,
\* height 50, step 50, the other options at their defaults
Scenario == CropCall(100, 100, "flat", 50, 50, TRUE, Default, 50, None)

GridTop == Trunc(RMul(args.max_scale, RInt(100)))
GridStop == Trunc(RMul(RSub(args.min_scale, args.scale_step), RInt(100)))
GridStride == Trunc(RMul(args.scale_step, RInt(100)))
GridCount == IF GridTop > GridStop THEN (GridTop - GridStop - 1) \div GridStride + 1 ELSE 0

\* the number of values of range(0, limit, step)
Steps(limit, step) == (limit + step - 1) \div step

\* every position of the grid, fitting or not: scale descending, then y
\* ascending, then x ascending
GridPositions ==
  [n \in 1 .. GridCount * Steps(args.image.h, args.step) * Steps(args.image.w, args.step) |->
     [x |-> ((n - 1) % Steps(args.image.w, args.step)) * args.step,
      y |-> (((n - 1) \div Steps(args.image.w, args.step)) % Steps(args.image.h, args.step))
              * args.step,
      width100 |-> args.crop_width
                     * (GridTop - GridStride
                          * ((n - 1) \div (Steps(args.image.h, args.step)
                                             * Steps(args.image.w, args.step)))),
      height100 |-> args.crop_height
                      * (GridTop - GridStride
                           * ((n - 1) \div (Steps(args.image.h, args.step)
                                              * Steps(args.image.w, args.step))))]]

\* y + crop_height * scale <= H and x + crop_width * scale <= W
FitsImage(c) ==
  100 * c.x + c.width100 <= 100 * args.image.w /\ 100 * c.y + c.height100 <= 100 * args.image.h

\* C11: crops() returns exactly the positions of the grid that fit the
\* image, in the grid's order (scale descending, then y ascending, then x
\* ascending), each once, with width crop_width * scale and height
\* crop_height * scale; it raises only when no position fits
C11_ReferenceGrid ==
  (pc = "done" /\ result.op = "crops") =>
    /\ result.status = "ok" => result.generated = SelectSeq(GridPositions, FitsImage)
    /\ result.status # "ok" => SelectSeq(GridPositions, FitsImage) = <<>>

\* two scales, several rows and columns, and positions of the grid that do
\* not fit, after which the loops abort
C11_Witness ==
  /\ pc = "done" /\ result.op = "crops" /\ result.status = "ok"
  /\ GridCount >= 2
  /\ Len(result.generated) < Len(GridPositions)
  /\ \E k \in 1 .. Len(result.generated) :
       /\ result.generated[k].x > 0 /\ result.generated[k].y > 0
       /\ result.generated[k].width100 < 100 * args.crop_width

\* scale = min(image width / width, image height / height) of the call in args
CallScale == RMin(Rat(args.image.w, args.width), Rat(args.image.h, args.height))

\* 1 / scale / min(max_scale, max(1 / scale, min_scale))
CallFactor ==
  RDiv(RDiv(RInt(1), CallScale),
       RMin(args.max_scale, RMax(RDiv(RInt(1), CallScale), args.min_scale)))

\* C12: crop() searches at the factor p = 1 / scale / min_scale when prescale
\* is enabled and that value is < 1, and at p = 1 otherwise; the searched
\* image is never larger than the image given; every returned candidate, the
\* top crop among them, has x, y, width, height = floor(searched value / p)
C12_RescaledToOriginal ==
  Returned({"crop"}) =>
    /\ result.prescale_size =
         IF args.prescale /\ RLt(CallFactor, RInt(1)) THEN CallFactor ELSE RInt(1)
    /\ result.size[1] <= args.image.w /\ result.size[2] <= args.image.h
    /\ result.top \in 1 .. Len(result.crops)
    /\ Len(result.crops) = Len(result.generated)
    /\ \A k \in 1 .. Len(result.crops) :
         /\ result.crops[k].x = Floor(RDiv(RInt(result.generated[k].x), result.prescale_size))
         /\ result.crops[k].y = Floor(RDiv(RInt(result.generated[k].y), result.prescale_size))
         /\ result.crops[k].width =
              Floor(RDiv(Rat(result.generated[k].width100, 100), result.prescale_size))
         /\ result.crops[k].height =
              Floor(RDiv(Rat(result.generated[k].height100, 100), result.prescale_size))

\* a search on a shrunken image: a candidate whose x grows on the way back and
\* is rounded down
C12_Witness ==
  /\ Returned({"crop"})
  /\ args.prescale /\ RLt(result.prescale_size, RInt(1))
  /\ result.size[1] < args.image.w
  /\ \E k \in 1 .. Len(result.crops) :
       /\ result.crops[k].x > result.generated[k].x
       /\ RLt(RInt(result.crops[k].x), RDiv(RInt(result.generated[k].x), result.prescale_size))

\* region b, with its bounds truncated to integers, contains pixel (x, y)
Contains(b, x, y) ==
  /\ Trunc(b.x) <= x /\ x < Trunc(RAdd(b.x, b.width))
  /\ Trunc(b.y) <= y /\ y < Trunc(RAdd(b.y, b.height))

\* weight * 255 summed over the first k regions that contain pixel (x, y)
RECURSIVE Accumulated(_, _, _, _)
Accumulated(regions, k, x, y) ==
  IF k = 0 THEN 0
  ELSE Accumulated(regions, k - 1, x, y)
         + (IF Contains(regions[k], x, y) THEN regions[k].weight * 255 ELSE 0)

\* C13: the boost channel is all zero without boost regions; otherwise every
\* pixel holds the sum of weight * 255 over the regions whose truncated bounds
\* contain it, and the value held lies in 0 .. 255
C13_BoostChannel ==
  (pc = "done" /\ result.op = "applyBoosts") =>
    \A n \in 1 .. Len(result.channel) :
      /\ result.channel[n] \in 0 .. 255
      /\ result.channel[n] =
           IF boosts.none THEN 0
           ELSE Accumulated(boosts.regions, Len(boosts.regions),
                            (n - 1) % args.image.w, (n - 1) \div args.image.w)

\* a pixel of two regions: the sum is 510 and the channel holds another value
C13_Witness ==
  /\ pc = "done" /\ result.op = "applyBoosts"
  /\ ~boosts.none
  /\ \E n \in 1 .. Len(result.channel) :
       /\ Accumulated(boosts.regions, Len(boosts.regions),
                      (n - 1) % args.image.w, (n - 1) \div args.image.w) = 510
       /\ result.channel[n] \in {254, 255}

C9_ThirdsValues ==
  (pc = "done" /\ result.op = "thirds") =>
    /\ args.n \in {0, 2 * ThirdsRes, 4 * ThirdsRes} => result.value = 0
    /\ args.n = ThirdsRes => result.value = Unit
    /\ result.value \in 0 .. Unit

C9_Witness == pc = "done" /\ result.op = "thirds" /\ args.n = ThirdsRes /\ result.value = Unit

\* C9 as documented: thirds(0) = thirds(2/3) = thirds(4/3), and thirds(1/3) = 0
C9_AsDocumented ==
  (pc = "done" /\ result.op = "thirds") =>
    /\ args.n \in {0, 2 * ThirdsRes, 4 * ThirdsRes} => result.value = thirds(0, 1)
    /\ args.n = ThirdsRes => result.value = 0

\* C10: importance(crop, x, y) is outside_importance for every point outside
\* the half-open rectangle [crop.x, crop.x + width) x [crop.y, crop.y + height),
\* and it is unchanged when the crop and the point are moved by the same (dx, dy)
C10_ImportanceRelative ==
  (pc = "done" /\ result.op = "importance") =>
    /\ ~(/\ args.crop.x <= args.x /\ 100 * args.x < 100 * args.crop.x + args.crop.width100
         /\ args.crop.y <= args.y /\ 100 * args.y < 100 * args.crop.y + args.crop.height100)
         => result.value = outside_importance
    /\ result.shifted = result.value

\* a point inside a crop that does not start at the origin, moved with it
C10_Witness ==
  /\ pc = "done" /\ result.op = "importance"
  /\ args.crop.x = 1 /\ args.x = 2 /\ args.crop.y = 1 /\ args.y = 1
  /\ args.dx = 1 /\ args.dy = -1
  /\ result.value # outside_importance
  /\ result.shifted = result.value

=============================================================================
